---- MODULE Spec2Model ----
(***************************************************************************)
(* A model of phockup's placement pipeline (src/src/phockup.py): planning  *)
(* of the destination (get_file_name_and_path), the collision loop and the *)
(* transfer of process_file, and the sidecar handling of process_xmp, run  *)
(* by walk_directory over a flat input directory.                          *)
(*                                                                         *)
(* Strings are sequences of one-character strings, so that lower(),        *)
(* splitext(), basename(), endswith() and the '%' formatting are computed  *)
(* as Python computes them.  The filesystem is a function from the paths   *)
(* of the existing regular files to their content, plus the set of the     *)
(* existing directories.                                                   *)
(***************************************************************************)
EXTENDS Integers, Sequences, FiniteSets, TLC

(***************************************************************************)
(* Strings                                                                 *)
(***************************************************************************)
Sep == "/"

Upper == <<"A","B","C","D","E","F","G","H","I","J","K","L","M",
           "N","O","P","Q","R","S","T","U","V","W","X","Y","Z">>

Lower == <<"a","b","c","d","e","f","g","h","i","j","k","l","m",
           "n","o","p","q","r","s","t","u","v","w","x","y","z">>

DigitChars == <<"0","1","2","3","4","5","6","7","8","9">>

\* The characters the model uses, in code point order (the order of list.sort()).
Alphabet == <<"-", ".", "/">> \o DigitChars \o Upper \o <<"_">> \o Lower

Ord(c) == CHOOSE i \in 1..Len(Alphabet) : Alphabet[i] = c

\* str.lower() on one character.
LowerChar(c) ==
  IF \E k \in 1..Len(Upper) : Upper[k] = c
  THEN Lower[CHOOSE k \in 1..Len(Upper) : Upper[k] = c]
  ELSE c

\* str.lower()
ToLower(s) == [i \in 1..Len(s) |-> LowerChar(s[i])]

\* str.endswith(s, suffix)
EndsWith(s, suffix) ==
  /\ Len(s) >= Len(suffix)
  /\ SubSeq(s, Len(s) - Len(suffix) + 1, Len(s)) = suffix

\* str.startswith(s, prefix)
StartsWith(s, prefix) ==
  /\ Len(s) >= Len(prefix)
  /\ SubSeq(s, 1, Len(prefix)) = prefix

\* str.rfind(c) as a 1-based index, 0 when c does not occur.
RFind(s, c) ==
  LET hits == {i \in 1..Len(s) : s[i] = c}
  IN  IF hits = {} THEN 0 ELSE CHOOSE i \in hits : \A j \in hits : j <= i

\* s < t in the order list.sort() uses for str.
StrLess(s, t) ==
  \E k \in 1..(Len(t)) :
    /\ \A j \in 1..(k - 1) : j <= Len(s) /\ s[j] = t[j]
    /\ \/ k = Len(s) + 1
       \/ k <= Len(s) /\ Ord(s[k]) < Ord(t[k])

\* sorted(names): the names of a finite set in ascending order.
RECURSIVE SortNames(_)
SortNames(names) ==
  IF names = {} THEN <<>>
  ELSE LET least == CHOOSE n \in names : \A m \in names \ {n} : StrLess(n, m)
       IN  <<least>> \o SortNames(names \ {least})

\* os.path.sep.join([a, b])
Join(a, b) == a \o <<Sep>> \o b

\* os.path.basename(p)
Basename(p) == SubSeq(p, RFind(p, Sep) + 1, Len(p))

\* os.path.dirname(p)
Dirname(p) == SubSeq(p, 1, RFind(p, Sep) - 1)

\* The index at which os.path.splitext(p) cuts p: the last dot of the last
\* component, if some character before it in that component is not a dot;
\* Len(p) + 1 (an empty extension) otherwise.
SplitAt(p) ==
  LET sepIndex == RFind(p, Sep)
      dotIndex == RFind(p, ".")
  IN  IF /\ dotIndex > sepIndex
         /\ \E i \in (sepIndex + 1)..(dotIndex - 1) : p[i] # "."
      THEN dotIndex
      ELSE Len(p) + 1

\* os.path.splitext(p)[0]
SplitextRoot(p) == SubSeq(p, 1, SplitAt(p) - 1)

\* os.path.splitext(p)[1]
SplitextExt(p) == SubSeq(p, SplitAt(p), Len(p))

\* '%0<w>d' % n for n >= 0: at least w digits, zero padded.
RECURSIVE Digits(_)
Digits(n) == IF n < 10 THEN <<DigitChars[n + 1]>>
             ELSE Digits(n \div 10) \o <<DigitChars[(n % 10) + 1]>>

RECURSIVE ZeroPad(_, _)
ZeroPad(s, w) == IF Len(s) >= w THEN s ELSE ZeroPad(<<"0">> \o s, w)

Fmt0d(n, w) == ZeroPad(Digits(n), w)

DotXmp == <<".", "x", "m", "p">>

(***************************************************************************)
(* TypeClassifier                                                          *)
(***************************************************************************)
ImagePrefix == <<"i", "m", "a", "g", "e", "/">>

VideoPrefix == <<"v", "i", "d", "e", "o", "/">>

\* The second alternative of patternImage; its dots are the regex's wildcard.
PhotoshopPattern ==
  <<"a", "p", "p", "l", "i", "c", "a", "t", "i", "o", "n", "/", "v", "n", "d">> \o
  <<".", "a", "d", "o", "b", "e", ".", "p", "h", "o", "t", "o", "s", "h", "o", "p">>

\* re.compile('^(image/.+|application/vnd.adobe.photoshop)$').match(m)
MatchesImage(m) ==
  \/ StartsWith(m, ImagePrefix) /\ Len(m) > Len(ImagePrefix)
  \/ /\ Len(m) = Len(PhotoshopPattern)
     /\ \A i \in 1..Len(m) : PhotoshopPattern[i] = "." \/ PhotoshopPattern[i] = m[i]

\* re.compile('^(video/.*)$').match(m)
MatchesVideo(m) == StartsWith(m, VideoPrefix)

\* get_file_type matching without regard to case (re.IGNORECASE).
get_file_type_ignorecase(mimetype) ==
  IF MatchesImage(ToLower(mimetype)) THEN "image"
  ELSE IF MatchesVideo(ToLower(mimetype)) THEN "video"
  ELSE "None"

\* Phockup.get_file_type: "image", "video" or "None" (Python's None).
get_file_type(mimetype) ==
  IF MatchesImage(mimetype) THEN "image"
  ELSE IF MatchesVideo(mimetype) THEN "video"
  ELSE "None"

(***************************************************************************)
(* Metadata and dates                                                      *)
(***************************************************************************)
\* Exif(file).data(): failed |-> TRUE is Python's None (extraction failed);
\* otherwise data is the mapping exiftool returned, possibly empty.
ExifOf(failed, data) == [failed |-> failed, data |-> data]

\* "exif_data and 'MIMEType' in exif_data"
HasMime(exif_data) ==
  /\ ~exif_data.failed
  /\ DOMAIN exif_data.data # {}
  /\ "MIMEType" \in DOMAIN exif_data.data

\* A resolved date: {'date': datetime, 'subseconds': str}.
DateOf(dt, sub) == [ok |-> TRUE, date |-> dt, subseconds |-> sub]

\* No date could be resolved: date['date'] raises or is None.
NoDate == [ok |-> FALSE]

\* Date(file).from_exif(exif_data, timestamp, date_regex, date_field).
\* A metadata date value is a resolved date, or NoDate when its string does
\* not parse; regex_date is what date_regex extracts from the basename and
\* mtime the file's modification time.
from_exif(exif_data, regex_date, mtime, timestamp, date_regex, date_field) ==
  LET d == exif_data.data
      preferred == IF date_field /\ "Custom" \in DOMAIN d THEN d["Custom"] ELSE NoDate
      known == IF "CreateDate" \in DOMAIN d THEN d["CreateDate"] ELSE NoDate
  IN  IF preferred.ok THEN preferred
      ELSE IF known.ok THEN known
      ELSE IF date_regex /\ regex_date.ok THEN regex_date
      ELSE IF timestamp THEN mtime
      ELSE NoDate

\* datetime.strftime(fmt) for the directives %Y, %m and %d.
RECURSIVE Strftime(_, _)
Strftime(fmt, dt) ==
  IF fmt = <<>> THEN <<>>
  ELSE IF fmt[1] = "%" /\ Len(fmt) >= 2
  THEN (CASE fmt[2] = "Y" -> Fmt0d(dt.year, 4)
          [] fmt[2] = "m" -> Fmt0d(dt.month, 2)
          [] fmt[2] = "d" -> Fmt0d(dt.day, 2)
          [] OTHER -> <<fmt[2]>>) \o Strftime(SubSeq(fmt, 3, Len(fmt)), dt)
  ELSE <<fmt[1]>> \o Strftime(Tail(fmt), dt)

Unknown == <<"u", "n", "k", "n", "o", "w", "n">>

(***************************************************************************)
(* PathPlanner                                                             *)
(***************************************************************************)
\* The path Phockup.get_output_dir returns (its makedirs is in the actions).
OutputDirPath(output, dir_format, date) ==
  IF date.ok THEN Join(output, Strftime(dir_format, date.date))
  ELSE Join(output, Unknown)

\* Phockup.get_file_name
get_file_name(original_filenames, file, date) ==
  IF original_filenames THEN Basename(file)
  ELSE IF date.ok
  THEN Fmt0d(date.date.year, 4) \o Fmt0d(date.date.month, 2) \o Fmt0d(date.date.day, 2)
       \o <<"-">>
       \o Fmt0d(date.date.hour, 2) \o Fmt0d(date.date.minute, 2) \o Fmt0d(date.date.second, 2)
       \o date.subseconds
       \o SplitextExt(file)
  ELSE Basename(file)

\* The case of the planned file name, lines 207-208.
PlannedCase(original_filenames, name) ==
  IF ~original_filenames THEN ToLower(name) ELSE name

\* Phockup.get_file_name_and_path, without the makedirs of get_output_dir:
\* c is the configuration, m the metadata provider's answers for the file.
get_file_name_and_path(c, file, m) ==
  LET target_file_type ==
        IF HasMime(m.exif) THEN get_file_type(m.exif.data["MIMEType"]) ELSE "None"
  IN  IF target_file_type \in {"image", "video"}
      THEN LET date == from_exif(m.exif, m.regex_date, m.mtime,
                                 c.timestamp, c.date_regex, c.date_field)
               output == OutputDirPath(c.output, c.dir_format, date)
               name == PlannedCase(c.original_filenames,
                                   get_file_name(c.original_filenames, file, date))
           IN  [output |-> output, target_file_name |-> name,
                target_file_path |-> Join(output, name),
                target_file_type |-> target_file_type]
      ELSE LET output == OutputDirPath(c.output, c.dir_format, NoDate)
               name == Basename(file)
           IN  [output |-> output, target_file_name |-> name,
                target_file_path |-> Join(output, name),
                target_file_type |-> target_file_type]

(***************************************************************************)
(* CollisionResolver and SidecarAssociator: the names                      *)
(***************************************************************************)
\* "%s-%d%s" % (target_split[0], suffix, target_split[1]), lines 190-191.
SuffixedPath(target_file_path, suffix) ==
  SplitextRoot(target_file_path) \o <<"-">> \o Digits(suffix) \o SplitextExt(target_file_path)

\* '-%s' % suffix if suffix > 1 else '', line 224.
XmpSuffix(suffix) == IF suffix > 1 THEN <<"-">> \o Digits(suffix) ELSE <<>>

\* xmp_target for the sidecar named file + '.xmp', line 229.
XmpTargetWithExt(file_name, suffix) == file_name \o XmpSuffix(suffix) \o DotXmp

\* xmp_target for the sidecar named splitext(file)[0] + '.xmp', line 232.
XmpTargetWithoutExt(file_name, suffix) ==
  SplitextRoot(file_name) \o XmpSuffix(suffix) \o DotXmp

\* The xmp_files dict of process_xmp as a sequence of <<original, target>>
\* in insertion order; files is the set of the existing regular files.
\* When both originals are the same path the second assignment replaces
\* the value and keeps the key's place.
XmpFiles(file, file_name, suffix, files) ==
  LET with_ext == file \o DotXmp
      without_ext == SplitextRoot(file) \o DotXmp
      first == IF with_ext \in files
               THEN <<  <<with_ext, XmpTargetWithExt(file_name, suffix)>>  >>
               ELSE <<>>
  IN  IF without_ext \notin files THEN first
      ELSE IF first # <<>> /\ with_ext = without_ext
      THEN <<  <<without_ext, XmpTargetWithoutExt(file_name, suffix)>>  >>
      ELSE first \o <<  <<without_ext, XmpTargetWithoutExt(file_name, suffix)>>  >>

(***************************************************************************)
(* The run: state                                                          *)
(***************************************************************************)
VARIABLES
  cfg,        \* the attributes __init__ sets from its arguments
  meta,       \* per input file: what Exif and Date see of it
  fs,         \* path of each existing regular file |-> its content
  dirs,       \* the existing directories
  pc,         \* "check", "walk", "loop", "xmp", "done" or "crashed"
  todo,       \* the rest of os.walk's sorted listing
  cur,        \* the locals of the running process_file
  xmp_files,  \* the sidecars process_xmp has still to transfer
  out,        \* the lines given to the printer
  hist,       \* the filesystem mutations executed, in order
  removed,    \* how many files were removed from outside during the run
  run,        \* 1 for the first run, 2 for a repeated one
  snap,       \* the files and directories at the start of this run
  exc         \* the exception that ended the run, "None" while there is none

vars == <<cfg, meta, fs, dirs, pc, todo, cur, xmp_files, out, hist, removed, run, snap, exc>>

MaxFiles == 2

MaxCopyFiles == 3

MaxRemoved == 1

MaxRuns == 2

MaxPrior == 3

ignored_files == { <<".", "D", "S", "_", "S", "t", "o", "r", "e">>,
                   <<"T", "h", "u", "m", "b", "s", ".", "d", "b">> }

\* os.path.isfile
IsFile(p) == p \in DOMAIN fs

\* The paths os.makedirs(p) makes exist: p and every ancestor of it.
Ancestors(p) ==
  {p} \cup {SubSeq(p, 1, i - 1) : i \in {j \in 2..Len(p) : p[j] = Sep}}

\* Phockup.checksum(a) == Phockup.checksum(b), both files existing.
SameChecksum(a, b) == fs[a] = fs[b]

NoCur ==
  [file |-> <<>>, output |-> <<>>, target_file_name |-> <<>>, target_file_path |-> <<>>,
   target_file_type |-> "None", suffix |-> 0, target_file |-> <<>>, probes |-> <<>>]

Line(kind, file, target) == [run |-> run, kind |-> kind, file |-> file, target |-> target]

\* One executed copy, move or link: what it read, where it wrote, the
\* content written, whether the destination held a file before, and the
\* primary file and suffix counter of the process_file call that executed it.
Mutation(op, src, dst) ==
  [run |-> run, op |-> op, src |-> src, dst |-> dst, content |-> fs[src],
   overwrote |-> IsFile(dst), during |-> cur.file, suffix |-> cur.suffix]

\* The files after shutil.copy2(src, dst) / os.link(src, dst).
Copied(f, src, dst) == [p \in DOMAIN f \cup {dst} |-> IF p = dst THEN f[src] ELSE f[p]]

\* The files after shutil.move(src, dst).
Moved(f, src, dst) ==
  [p \in (DOMAIN f \cup {dst}) \ {src} |-> IF p = dst THEN f[src] ELSE f[p]]

\* The files after the transfer the configuration selects, lines 170-180
\* and 240-245: move wins over link, link over copy.
Transferred(c, f, src, dst) ==
  IF c.move THEN Moved(f, src, dst) ELSE Copied(f, src, dst)

(***************************************************************************)
(* The run: actions                                                        *)
(***************************************************************************)
\* Phockup.check_directories, then the listing os.walk takes of the input
\* directory, sorted by files.sort().
CheckDirectories ==
  /\ pc = "check"
  /\ LET input_ok == cfg.input \in dirs
         output_missing == cfg.output \notin dirs
         names == {Basename(p) : p \in {q \in DOMAIN fs : Dirname(q) = cfg.input}}
     IN  /\ dirs' = IF input_ok /\ output_missing /\ ~cfg.dry_run
                    THEN dirs \cup Ancestors(cfg.output) ELSE dirs
         /\ out' = IF ~input_ok THEN Append(out, Line("error_input", cfg.input, <<>>))
                   ELSE IF output_missing
                   THEN Append(out, Line("creating_output", cfg.output, <<>>))
                   ELSE out
         /\ todo' = IF input_ok THEN SortNames(names) ELSE <<>>
  /\ pc' = "walk"
  /\ UNCHANGED <<cfg, meta, fs, cur, xmp_files, hist, removed, run, snap, exc>>

\* The test of line 148 comparing the extension with 'xmp', without its dot.
IsSidecarPathByExt(file) == SplitextExt(file) = <<"x", "m", "p">>

\* "str.endswith(file, '.xmp')", line 148.
IsSidecarPath(file) == EndsWith(file, DotXmp)

\* One turn of walk_directory's loop and the head of process_file: an
\* ignored file is passed over, a '.xmp' file returns at once, any other
\* file is announced and planned (get_output_dir makes the directory).
ProcessFile ==
  /\ pc = "walk"
  /\ todo # <<>>
  /\ todo' = Tail(todo)
  /\ LET filename == Head(todo)
         file == Join(cfg.input, filename)
         plan == get_file_name_and_path(cfg, file, meta[file])
     IN  IF filename \in ignored_files \/ IsSidecarPath(file)
         THEN UNCHANGED <<pc, cur, dirs, out>>
         ELSE /\ pc' = "loop"
              /\ out' = Append(out, Line("file", file, <<>>))
              /\ dirs' = IF plan.output \notin dirs /\ ~cfg.dry_run
                         THEN dirs \cup Ancestors(plan.output) ELSE dirs
              /\ cur' = [file |-> file, output |-> plan.output,
                         target_file_name |-> plan.target_file_name,
                         target_file_path |-> plan.target_file_path,
                         target_file_type |-> plan.target_file_type,
                         suffix |-> 1, target_file |-> plan.target_file_path,
                         probes |-> <<>>]
  /\ UNCHANGED <<cfg, meta, fs, xmp_files, hist, removed, run, snap, exc>>

\* walk_directory returns.
WalkDone ==
  /\ pc = "walk"
  /\ todo = <<>>
  /\ pc' = "done"
  /\ UNCHANGED <<cfg, meta, fs, dirs, todo, cur, xmp_files, out, hist, removed, run, snap, exc>>

\* The outcomes that are an exception nothing catches.
Raises == {"raise_checksum", "raise_link", "raise_missing", "raise_exists"}

\* The loop's turn without the 'if not self.dry_run' of line 169.
LoopOutcomeWithoutDryRun ==
  IF cfg.file_type # cur.target_file_type /\ cfg.file_type # "None" THEN "skip_type"
  ELSE IF IsFile(cur.target_file)
  THEN (IF ~IsFile(cur.file) THEN "raise_checksum"
        ELSE IF SameChecksum(cur.file, cur.target_file) THEN "skip_dup"
        ELSE "next")
  ELSE IF IsFile(cur.file) THEN "transfer"
  ELSE IF cfg.move \/ ~cfg.link THEN "skip_missing"
  ELSE "raise_link"

\* What one turn of the 'while True' loop of process_file does, lines
\* 158-191.  checksum(file) and os.link raise FileNotFoundError for a
\* source that is gone, and only copy and move sit in a try block.
LoopOutcome ==
  IF cfg.file_type # cur.target_file_type /\ cfg.file_type # "None" THEN "skip_type"
  ELSE IF IsFile(cur.target_file)
  THEN (IF ~IsFile(cur.file) THEN "raise_checksum"
        ELSE IF SameChecksum(cur.file, cur.target_file) THEN "skip_dup"
        ELSE "next")
  ELSE IF cfg.dry_run THEN "report"
  ELSE IF IsFile(cur.file) THEN "transfer"
  ELSE IF cfg.move \/ ~cfg.link THEN "skip_missing"
  ELSE "raise_link"

\* The next candidate derived from the previous candidate instead of
\* from target_file_path.
NextCandidateFromPrevious(c) == SuffixedPath(c.target_file, c.suffix + 1)

\* The candidate the loop turns to after an occupied one, lines 189-191.
NextCandidate(c) == SuffixedPath(c.target_file_path, c.suffix + 1)

\* Whether process_file goes on to process_xmp, line 186.
CallsProcessXmp(outcome) == outcome \in {"transfer", "report"}

LoopStep ==
  /\ pc = "loop"
  /\ LET outcome == LoopOutcome
         probed == [cur EXCEPT !.probes =
                      Append(@, [path |-> cur.target_file, outcome |-> outcome])]
         fs1 == IF outcome = "transfer"
                THEN Transferred(cfg, fs, cur.file, cur.target_file) ELSE fs
         sidecars == IF CallsProcessXmp(outcome)
                     THEN XmpFiles(cur.file, cur.target_file_name, cur.suffix, DOMAIN fs1)
                     ELSE <<>>
     IN  /\ fs' = fs1
         /\ hist' = IF outcome = "transfer"
                    THEN Append(hist, Mutation("primary", cur.file, cur.target_file))
                    ELSE hist
         /\ out' = CASE outcome = "skip_type" -> Append(out, Line("skip_type", cur.file, <<>>))
                     [] outcome = "skip_dup" -> Append(out, Line("skip_dup", cur.file, cur.target_file))
                     [] outcome = "skip_missing" -> Append(out, Line("skip_missing", cur.file, <<>>))
                     [] outcome \in {"transfer", "report"} ->
                          Append(out, Line("to", cur.file, cur.target_file))
                     [] OTHER -> out
         /\ cur' = IF outcome = "next"
                   THEN [probed EXCEPT !.suffix = cur.suffix + 1,
                                       !.target_file = NextCandidate(cur)]
                   ELSE probed
         /\ xmp_files' = sidecars
         /\ pc' = CASE outcome = "next" -> "loop"
                    [] outcome \in Raises -> "crashed"
                    [] sidecars # <<>> -> "xmp"
                    [] OTHER -> "walk"
         /\ exc' = IF outcome \in Raises THEN outcome ELSE exc
  /\ UNCHANGED <<cfg, meta, dirs, todo, removed, run, snap>>

\* What one turn of the 'for original, target' loop of process_xmp does,
\* lines 235-245: nothing in process_xmp catches what the transfer raises.
XmpOutcome(original, xmp_path) ==
  IF cfg.dry_run THEN "report"
  ELSE IF ~IsFile(original) THEN "raise_missing"
  ELSE IF ~cfg.move /\ cfg.link /\ IsFile(xmp_path) THEN "raise_exists"
  ELSE "transfer"

XmpStep ==
  /\ pc = "xmp"
  /\ LET original == Head(xmp_files)[1]
         xmp_path == Join(cur.output, Head(xmp_files)[2])
         outcome == XmpOutcome(original, xmp_path)
     IN  /\ out' = Append(out, Line("xmp", original, xmp_path))
         /\ fs' = IF outcome = "transfer"
                  THEN Transferred(cfg, fs, original, xmp_path) ELSE fs
         /\ hist' = IF outcome = "transfer"
                    THEN Append(hist, Mutation("sidecar", original, xmp_path))
                    ELSE hist
         /\ xmp_files' = Tail(xmp_files)
         /\ pc' = IF outcome \in Raises THEN "crashed"
                  ELSE IF Tail(xmp_files) = <<>> THEN "walk"
                  ELSE "xmp"
         /\ exc' = IF outcome \in Raises THEN outcome ELSE exc
  /\ UNCHANGED <<cfg, meta, dirs, todo, cur, removed, run, snap>>

\* A file is removed from outside while the file in hand is between its
\* planning and its transfer: the source itself before the transfer, or a
\* sidecar process_xmp has found and not yet transferred.
ExternalRemove ==
  /\ pc \in {"loop", "xmp"}
  /\ removed < MaxRemoved
  /\ \E p \in (IF pc = "loop" THEN {cur.file}
               ELSE {xmp_files[i][1] : i \in 1..Len(xmp_files)}) \cap DOMAIN fs :
       fs' = [q \in DOMAIN fs \ {p} |-> fs[q]]
  /\ removed' = removed + 1
  /\ UNCHANGED <<cfg, meta, dirs, pc, todo, cur, xmp_files, out, hist, run, snap, exc>>

\* The same program is started again on the same input and output.
Rerun ==
  /\ pc = "done"
  /\ run < MaxRuns
  /\ run' = run + 1
  /\ snap' = [fs |-> fs, dirs |-> dirs]
  /\ pc' = "check"
  /\ cur' = NoCur
  /\ UNCHANGED <<cfg, meta, fs, dirs, todo, xmp_files, out, hist, removed, exc>>

(***************************************************************************)
(* Initial states                                                          *)
(***************************************************************************)
InputDir == <<"i", "n">>

OutputDir == <<"o", "u", "t">>

\* '%Y/%m/%d', the default of dir_format (line 28).
DefaultDirFormat == <<"%", "Y", "/", "%", "m", "/", "%", "d">>

AJpg == <<"a", ".", "J", "P", "G">>

BJpg == <<"b", ".", "J", "P", "G">>

AXmpUpper == <<"a", ".", "X", "M", "P">>

BXmpUpper == <<"b", ".", "X", "M", "P">>

AXmp == <<"a", ".", "x", "m", "p">>

BJpgXmp == <<"b", ".", "J", "P", "G", ".", "x", "m", "p">>

DsStore == <<".", "D", "S", "_", "S", "t", "o", "r", "e">>

\* Files walk_directory hands to get_file_name_and_path.
Primaries == {AJpg, BJpg, AXmpUpper, BXmpUpper}

Names == Primaries \cup {AXmp, BJpgXmp, DsStore}

\* 2021-06-15 10:20:30
D1 == [year |-> 2021, month |-> 6, day |-> 15, hour |-> 10, minute |-> 20, second |-> 30]

\* 2019-12-01 08:05:09
D2 == [year |-> 2019, month |-> 12, day |-> 1, hour |-> 8, minute |-> 5, second |-> 9]

\* 2020-02-29 23:59:58
D3 == [year |-> 2020, month |-> 2, day |-> 29, hour |-> 23, minute |-> 59, second |-> 58]

MimeJpeg == <<"i", "m", "a", "g", "e", "/", "j", "p", "e", "g">>

EmptyMapping == [k \in {} |-> NoDate]

\* Extraction failed.
ExifFailed == ExifOf(TRUE, EmptyMapping)

\* A JPEG taken at D1.
ExifImage == ExifOf(FALSE, [MIMEType |-> MimeJpeg, CreateDate |-> DateOf(D1, <<>>)])

MetaOf(exif) == [exif |-> exif, regex_date |-> NoDate, mtime |-> DateOf(D3, <<>>)]

ConfigOf(move, link, dry_run, file_type) ==
  [input |-> InputDir, output |-> OutputDir, dir_format |-> DefaultDirFormat,
   move |-> move, link |-> link, dry_run |-> dry_run,
   original_filenames |-> FALSE, file_type |-> file_type,
   timestamp |-> FALSE, date_regex |-> FALSE, date_field |-> FALSE]

\* The canonical destination of a JPEG taken at D1 under the default
\* configuration, 'out/2021/06/15/20210615-102030.jpg'.
CanonicalJpg ==
  get_file_name_and_path(ConfigOf(FALSE, FALSE, FALSE, "None"),
                         Join(InputDir, AJpg), MetaOf(ExifImage)).target_file_path

\* The first n candidates of the collision loop for CanonicalJpg.
Candidates(n) ==
  {CanonicalJpg} \cup {SuffixedPath(CanonicalJpg, k) : k \in 2..n}

\* An output tree: absent, or holding the given files.
NoOutput == [exists |-> FALSE, files |-> EmptyMapping]

OutputWith(files) == [exists |-> TRUE, files |-> files]

\* The input trees of at most count of Names: a primary holds content 1 or 2
\* and is seen by the metadata provider as a JPEG taken at D1 or not at
\* all; a sidecar or ignored file holds content 3.
TreesUpTo(count) ==
  { t \in UNION { [S -> [content : {1, 2, 3}, exif : {ExifFailed, ExifImage}]] :
                  S \in {T \in SUBSET Names : Cardinality(T) <= count} } :
      \A n \in DOMAIN t :
        IF n \in Primaries THEN t[n].content \in {1, 2}
        ELSE t[n].content = 3 /\ t[n].exif = ExifFailed }

InitWith(configs, trees, priors) ==
  /\ cfg \in configs
  /\ \E t \in trees, prior \in priors, input_exists \in BOOLEAN :
       /\ ~input_exists => DOMAIN t = {}
       /\ fs = [p \in {Join(InputDir, n) : n \in DOMAIN t} \cup DOMAIN prior.files |->
                  IF p \in DOMAIN prior.files THEN prior.files[p]
                  ELSE t[Basename(p)].content]
       /\ meta = [p \in {Join(InputDir, n) : n \in DOMAIN t} |-> MetaOf(t[Basename(p)].exif)]
       /\ dirs = (IF input_exists THEN {InputDir} ELSE {})
                 \cup (IF prior.exists THEN {OutputDir} ELSE {})
                 \cup UNION {Ancestors(Dirname(p)) : p \in DOMAIN prior.files}
  /\ pc = "check"
  /\ todo = <<>>
  /\ cur = NoCur
  /\ xmp_files = <<>>
  /\ out = <<>>
  /\ hist = <<>>
  /\ removed = 0
  /\ run = 1
  /\ snap = [fs |-> fs, dirs |-> dirs]
  /\ exc = "None"

\* An output tree that is absent, empty, or holds a file of content 2 at
\* CanonicalJpg.
Priors ==
  {NoOutput, OutputWith(EmptyMapping), OutputWith([p \in {CanonicalJpg} |-> 2])}

\* Real runs in copy, move and link mode, with and without a type filter.
Configs ==
  {ConfigOf(m[1], m[2], FALSE, t) :
     m \in {<<FALSE, FALSE>>, <<TRUE, FALSE>>, <<FALSE, TRUE>>}, t \in {"None", "image"}}

Init == InitWith(Configs, TreesUpTo(MaxFiles), Priors)

Step == CheckDirectories \/ ProcessFile \/ WalkDone \/ LoopStep \/ XmpStep

Next == Step \/ ExternalRemove

Spec == Init /\ [][Next]_vars

(***************************************************************************)
(* Dry runs                                                                *)
(***************************************************************************)
\* Every combination of the move and link flags, with dry_run set.
DryConfigs ==
  {ConfigOf(m, l, TRUE, t) : m \in BOOLEAN, l \in BOOLEAN, t \in {"None", "image"}}

InitDry == InitWith(DryConfigs, TreesUpTo(MaxFiles), Priors)

\* Nothing but the program touches the trees during a dry run.
NextDry == Step

SpecDry == InitDry /\ [][NextDry]_vars

(***************************************************************************)
(* The same copy run twice                                                 *)
(***************************************************************************)
CopyConfigs == {ConfigOf(FALSE, FALSE, FALSE, t) : t \in {"None", "image"}}

InitTwice == InitWith(CopyConfigs, TreesUpTo(MaxCopyFiles), Priors)

NextTwice == Step \/ Rerun

SpecTwice == InitTwice /\ [][NextTwice]_vars

(***************************************************************************)
(* The collision loop against an occupied output tree                      *)
(***************************************************************************)
\* Output trees holding files of content 1 or 2 at any of the first
\* MaxPrior candidates of CanonicalJpg.
LoopPriors ==
  {NoOutput} \cup
  {OutputWith(f) : f \in UNION {[P -> {1, 2}] : P \in SUBSET Candidates(MaxPrior)}}

LoopTrees == {t \in TreesUpTo(MaxFiles) : DOMAIN t \subseteq {AJpg, AXmp}}

AllConfigs == Configs \cup DryConfigs

InitLoop == InitWith(AllConfigs, LoopTrees, LoopPriors)

\* The loop of process_file runs on: no turn of it waits for anything.
SpecFair == InitLoop /\ [][Next]_vars /\ WF_vars(LoopStep)

(***************************************************************************)
(* Planning alone, over the whole date configuration                       *)
(***************************************************************************)
NotesTxt == <<"N", "o", "t", "e", "s", ".", "t", "x", "t">>

MimeText == <<"t", "e", "x", "t", "/", "p", "l", "a", "i", "n">>

MimeVideo == <<"v", "i", "d", "e", "o", "/", "m", "p", "4">>

MimePhotoshop ==
  <<"a", "p", "p", "l", "i", "c", "a", "t", "i", "o", "n", "/", "v", "n", "d">> \o
  <<".", "a", "d", "o", "b", "e", ".", "p", "h", "o", "t", "o", "s", "h", "o", "p">>

\* 'image/' with no subtype and a MIME type in capitals: neither matches.
MimeBareImage == <<"i", "m", "a", "g", "e", "/">>

MimeCapitals == <<"I", "m", "a", "g", "e", "/", "J", "P", "E", "G">>

PlanNames == {AJpg, AXmpUpper, NotesTxt}

MediaMimes == {MimeJpeg, MimeVideo, MimePhotoshop}

\* What the metadata provider may answer: nothing, an empty mapping, a
\* mapping without MIME type, and mappings with each MIME type and with
\* no date, a date (with and without subseconds) or an unparsable date,
\* and with the user's preferred field.
PlanExifs ==
  {ExifFailed, ExifOf(FALSE, EmptyMapping),
   ExifOf(FALSE, [CreateDate |-> DateOf(D1, <<>>)])}
  \cup {ExifOf(FALSE, [MIMEType |-> m]) :
          m \in MediaMimes \cup {MimeText, MimeBareImage, MimeCapitals}}
  \cup {ExifOf(FALSE, [MIMEType |-> m, CreateDate |-> d]) :
          m \in MediaMimes \cup {MimeText, MimeBareImage, MimeCapitals},
          d \in {DateOf(D1, <<>>), DateOf(D1, <<"0", "7">>), NoDate}}
  \cup {ExifOf(FALSE, [MIMEType |-> m, CreateDate |-> NoDate, Custom |-> DateOf(D2, <<>>)]) :
          m \in {MimeJpeg, MimeText}}

PlanConfigs ==
  {[ConfigOf(FALSE, FALSE, dry, "None") EXCEPT
      !.dir_format = fmt, !.original_filenames = orig,
      !.timestamp = ts, !.date_regex = rx, !.date_field = fld] :
     dry \in BOOLEAN, orig \in BOOLEAN, ts \in BOOLEAN, rx \in BOOLEAN, fld \in BOOLEAN,
     fmt \in {DefaultDirFormat, <<"%", "Y", "-", "%", "m">>}}

InitPlan ==
  /\ cfg \in PlanConfigs
  /\ \E n \in PlanNames, e \in PlanExifs, rd \in {NoDate, DateOf(D2, <<>>)} :
       /\ fs = [p \in {Join(InputDir, n)} |-> 1]
       /\ meta = [p \in {Join(InputDir, n)} |->
                    [exif |-> e, regex_date |-> rd, mtime |-> DateOf(D3, <<>>)]]
  /\ dirs = {InputDir, OutputDir}
  /\ pc = "check"
  /\ todo = <<>>
  /\ cur = NoCur
  /\ xmp_files = <<>>
  /\ out = <<>>
  /\ hist = <<>>
  /\ removed = 0
  /\ run = 1
  /\ snap = [fs |-> fs, dirs |-> dirs]
  /\ exc = "None"

\* process_file up to the return of get_file_name_and_path.
NextPlan == CheckDirectories \/ ProcessFile

SpecPlan == InitPlan /\ [][NextPlan]_vars

(***************************************************************************)
(* Properties of planning (checked under SpecPlan)                         *)
(***************************************************************************)
OutUnknown == <<"o", "u", "t", "/", "u", "n", "k", "n", "o", "w", "n">>

\* get_file_name_and_path has returned for cur.file and nothing was probed.
Planned == pc = "loop" /\ cur.probes = <<>>

\* The name os.walk listed for cur.file.
ListedName == SubSeq(cur.file, Len(InputDir) + 2, Len(cur.file))

\* MIME types that are neither image/<something>, the photoshop type nor video/...
NonMediaMimes == {MimeText, MimeBareImage, MimeCapitals}

\* The metadata of cur.file is empty, has no MIME type, or one that is
\* neither image nor video.
Unclassified ==
  LET e == meta[cur.file].exif
  IN  \/ e.failed
      \/ DOMAIN e.data = {}
      \/ "MIMEType" \notin DOMAIN e.data
      \/ e.data["MIMEType"] \in NonMediaMimes

\* C5: a file whose metadata is empty, has no MIME type or has a MIME type
\* that is neither image nor video is planned at
\* '<output>/unknown/<original basename>', the basename unmodified,
\* whatever date_regex, timestamp, date_field, dir_format and
\* original_filenames are and whether or not a date resolves for it.
C5_UnclassifiedGoesToUnknown ==
  (Planned /\ Unclassified) =>
    /\ cur.output = OutUnknown
    /\ cur.target_file_name = ListedName
    /\ cur.target_file_path = OutUnknown \o <<"/">> \o ListedName
    /\ cur.target_file_type = "None"

\* A text file named a.JPG whose metadata holds a parsable date, planned
\* with generated names and the timestamp fallback on: it stays a.JPG.
C5_Witness ==
  /\ Planned
  /\ ListedName = AJpg
  /\ meta[cur.file].exif = ExifOf(FALSE, [MIMEType |-> MimeText, CreateDate |-> DateOf(D1, <<>>)])
  /\ ~cfg.original_filenames /\ cfg.timestamp /\ cfg.date_regex /\ cfg.date_field
  /\ cur.target_file_path = <<"o", "u", "t", "/", "u", "n", "k", "n", "o", "w", "n", "/", "a", ".", "J", "P", "G">>

\* C9 as claimed: an image or video for which no date resolves, with
\* original_filenames not set, is planned in '<output>/unknown' under its
\* original basename, character for character.
C9_Claim ==
  (/\ Planned
   /\ HasMime(meta[cur.file].exif)
   /\ meta[cur.file].exif.data["MIMEType"] \in MediaMimes
   /\ ~cfg.original_filenames
   /\ ~from_exif(meta[cur.file].exif, meta[cur.file].regex_date, meta[cur.file].mtime,
                 cfg.timestamp, cfg.date_regex, cfg.date_field).ok) =>
    /\ cur.output = OutUnknown
    /\ cur.target_file_name = ListedName

(***************************************************************************)
(* Properties of a run                                                     *)
(***************************************************************************)
SkipKinds == {"skip_type", "skip_dup", "skip_missing"}

\* The lines process_file prints about the file it handles as a primary.
PrimaryKinds == {"file", "to"} \cup SkipKinds

\* C3 as claimed: a transfer whose source is gone when the copy, move or
\* link is executed, of a primary file or of a sidecar, is reported as a
\* skip and never terminates the run.
C3_Claim == exc \notin {"raise_link", "raise_missing"}

\* C4 as claimed: the full-name sidecar 'name.ext.xmp' of a primary that
\* was transferred with suffix counter N > 1 lands at the primary's final
\* path followed by '.xmp'.
C4_Claim ==
  \A i \in DOMAIN hist : \A j \in DOMAIN hist :
    (/\ hist[i].op = "primary"
     /\ hist[i].suffix > 1
     /\ hist[j].op = "sidecar"
     /\ hist[j].run = hist[i].run
     /\ hist[j].during = hist[i].src
     /\ hist[j].src = hist[i].src \o DotXmp) =>
      hist[j].dst = hist[i].dst \o DotXmp

\* C10 as claimed: no transfer, of a primary file or of a sidecar, writes
\* to a path that already holds a file.
C10_Claim == \A i \in DOMAIN hist : ~hist[i].overwrote

CopyMode == ~cfg.move /\ ~cfg.link /\ ~cfg.dry_run

\* process_file has returned for f in run r after transferring it or
\* finding it a duplicate.
Placed(f, r) ==
  /\ \E i \in DOMAIN out : out[i].run = r /\ out[i].file = f /\ out[i].kind \in {"to", "skip_dup"}
  /\ ~(pc \in {"xmp", "crashed"} /\ cur.file = f /\ run = r)

\* The canonical destination get_file_name_and_path plans for f.
CanonicalOf(f) == get_file_name_and_path(cfg, f, meta[f]).target_file_path

\* The canonical path and its '-N' variants.
Family(canonical) ==
  {canonical} \cup {SuffixedPath(canonical, k) : k \in 2..(MaxCopyFiles * MaxRuns + MaxPrior + 1)}

\* C1 as claimed: in copy mode, once process_file has handled two sources
\* of different content and the same canonical destination, both contents
\* are in the output tree at two different paths of that destination's
\* family, and the file written for each still holds what was written.
C1_Claim ==
  CopyMode =>
    \A f1 \in DOMAIN meta : \A f2 \in DOMAIN meta :
      (/\ f1 # f2
       /\ ~IsSidecarPath(f1) /\ ~IsSidecarPath(f2)
       /\ IsFile(f1) /\ IsFile(f2)
       /\ fs[f1] # fs[f2]
       /\ CanonicalOf(f1) = CanonicalOf(f2)
       /\ Placed(f1, 1) /\ Placed(f2, 1)) =>
        /\ \E p1 \in Family(CanonicalOf(f1)) \cap DOMAIN fs :
             \E p2 \in Family(CanonicalOf(f1)) \cap DOMAIN fs :
               p1 # p2 /\ fs[p1] = fs[f1] /\ fs[p2] = fs[f2]
        /\ \A i \in DOMAIN hist :
             (hist[i].op = "primary" /\ hist[i].src \in {f1, f2}) =>
               (hist[i].dst \in DOMAIN fs /\ fs[hist[i].dst] = hist[i].content)

\* C2 as claimed: a second copy run over the same input and output
\* transfers no primary file; every source the first run placed ends as a
\* skipped duplicate, and the output tree holds the same files as before.
C2_Claim ==
  (CopyMode /\ run = 2) =>
    /\ \A i \in DOMAIN hist : hist[i].run = 2 => hist[i].op # "primary"
    /\ pc = "done" =>
         /\ DOMAIN fs = DOMAIN snap.fs
         /\ \A i \in DOMAIN hist :
              (hist[i].run = 1 /\ hist[i].op = "primary") =>
                \E j \in DOMAIN out :
                  out[j].run = 2 /\ out[j].kind = "skip_dup" /\ out[j].file = hist[i].src

(***************************************************************************)
(* Dry runs (checked under SpecDry)                                        *)
(***************************************************************************)
\* process_file has returned for the file announced by line i of out.
Returned(i) == ~(i = Len(out) /\ pc = "loop") /\ ~(pc = "loop" /\ cur.file = out[i].file)

\* C6: a dry run, with any move and link flags, input tree and prior
\* output tree, creates no directory and copies, moves or links no file,
\* and still reports for every file it handles the planned destination (or
\* the skip a real run would report).
C6_DryRunLeavesFilesystem ==
  cfg.dry_run =>
    /\ fs = snap.fs
    /\ dirs = snap.dirs
    /\ hist = <<>>
    /\ \A i \in DOMAIN out :
         (out[i].kind = "file" /\ Returned(i)) =>
           /\ i < Len(out)
           /\ out[i + 1].file = out[i].file
           /\ out[i + 1].kind \in {"to", "skip_dup", "skip_type"}
           /\ out[i + 1].kind = "to" =>
                /\ out[i + 1].target \notin DOMAIN fs
                /\ out[i + 1].target \in Family(CanonicalOf(out[i].file))
           /\ out[i + 1].kind = "skip_dup" =>
                /\ out[i + 1].target \in DOMAIN fs
                /\ fs[out[i + 1].target] = fs[out[i].file]
           /\ out[i + 1].kind = "skip_type" =>
                cfg.file_type = "image" /\ meta[out[i].file].exif.failed

\* A finished dry run in move mode over an input with a sidecar and an
\* absent output directory: the destinations of the primary and of the
\* sidecar were reported and the output directory still does not exist.
C6_Witness ==
  /\ cfg.dry_run /\ cfg.move
  /\ pc = "done"
  /\ OutputDir \notin dirs
  /\ \E i \in DOMAIN out : out[i].kind = "to" /\ out[i].target = CanonicalJpg
  /\ \E i \in DOMAIN out : out[i].kind = "xmp"

(***************************************************************************)
(* Sidecars and their primaries (checked under Spec)                       *)
(***************************************************************************)
\* C7: a path ending in '.xmp' is never announced, planned, probed or
\* transferred as a primary file; a '.xmp' file is transferred only by
\* process_xmp, in the process_file call of a primary whose own transfer
\* was executed just before; and the call of a primary that was skipped
\* (duplicate, type filter, vanished source) or that raised transfers
\* nothing.
C7_SidecarsOnlyFollowPrimary ==
  /\ \A i \in DOMAIN out : out[i].kind \in PrimaryKinds => ~EndsWith(out[i].file, DotXmp)
  /\ pc \in {"loop", "xmp"} => ~EndsWith(cur.file, DotXmp)
  /\ \A i \in DOMAIN hist :
       /\ hist[i].op = "primary" => ~EndsWith(hist[i].src, DotXmp)
       /\ EndsWith(hist[i].src, DotXmp) =>
            /\ hist[i].op = "sidecar"
            /\ \E j \in 1..(i - 1) :
                 /\ hist[j].op = "primary"
                 /\ hist[j].src = hist[i].during
                 /\ hist[j].run = hist[i].run
                 /\ \A k \in (j + 1)..(i - 1) :
                      hist[k].op = "sidecar" /\ hist[k].during = hist[i].during
  /\ \A i \in DOMAIN out :
       out[i].kind \in SkipKinds =>
         \A j \in DOMAIN hist : ~(hist[j].during = out[i].file /\ hist[j].run = out[i].run)
  /\ exc \in {"raise_link", "raise_checksum"} =>
       \A j \in DOMAIN hist : ~(hist[j].during = cur.file /\ hist[j].run = run)

\* A finished run in which a.JPG was skipped as a duplicate, its sidecar
\* a.xmp is still in the input tree and was transferred by nothing.
C7_Witness ==
  /\ pc = "done"
  /\ \E i \in DOMAIN out : out[i].kind = "skip_dup" /\ out[i].file = Join(InputDir, AJpg)
  /\ Join(InputDir, AXmp) \in DOMAIN fs
  /\ \A j \in DOMAIN hist : hist[j].src # Join(InputDir, AXmp)

(***************************************************************************)
(* The collision loop (checked under SpecFair)                             *)
(***************************************************************************)
\* The k-th candidate for a canonical path with a three letter extension:
\* the path itself, then '-k' put before the last four characters.
KthCandidate(canonical, k) ==
  IF k = 1 THEN canonical
  ELSE SubSeq(canonical, 1, Len(canonical) - 4) \o <<"-", DigitChars[k + 1]>>
       \o SubSeq(canonical, Len(canonical) - 3, Len(canonical))

\* The type filter excludes cur.file: the loop ends without probing.
Filtered == cfg.file_type # "None" /\ cfg.file_type # cur.target_file_type

\* One turn of the loop that probes candidate number Len(cur.probes) + 1.
ProbeTurn ==
  /\ pc = "loop"
  /\ Len(cur'.probes) = Len(cur.probes) + 1
  /\ ~Filtered

\* What a probing turn does: it probes the next candidate of the fixed
\* order; it goes on exactly when that candidate holds a file of other
\* content, and then changes no file; it ends with a transfer only to an
\* unoccupied candidate, which then holds the source's content, and with
\* a duplicate skip only at a candidate of equal content.
ProbeTurnIsRight ==
  LET k == Len(cur.probes) + 1
      cand == cur.target_file
      occupied == cand \in DOMAIN fs
      readable == cur.file \in DOMAIN fs
  IN  /\ cur.suffix = k
      /\ cand = KthCandidate(cur.target_file_path, k)
      /\ pc' = "loop" <=> (occupied /\ readable /\ fs[cand] # fs[cur.file])
      /\ pc' = "loop" => fs' = fs /\ hist' = hist
      /\ hist' # hist =>
           /\ ~occupied /\ readable
           /\ cand \in DOMAIN fs' /\ fs'[cand] = fs[cur.file]
           /\ \A p \in DOMAIN fs \cap DOMAIN fs' : fs'[p] = fs[p]
      /\ (pc' # "loop" /\ occupied /\ readable) =>
           /\ fs[cand] = fs[cur.file]
           /\ fs' = fs
           /\ out' = Append(out, Line("skip_dup", cur.file, cand))
      /\ (pc' # "loop" /\ ~occupied /\ readable /\ ~cfg.dry_run) => hist' # hist

\* While the loop runs, every lower-numbered candidate holds a file whose
\* content differs from the source's.
LowerCandidatesDiffer ==
  pc = "loop" =>
    \A k \in 1..(cur.suffix - 1) :
      /\ KthCandidate(cur.target_file_path, k) \in DOMAIN fs
      /\ cur.file \in DOMAIN fs =>
           fs[KthCandidate(cur.target_file_path, k)] # fs[cur.file]

\* C8: the collision loop always terminates; it probes the canonical path,
\* then '<stem>-2<ext>', '<stem>-3<ext>', ... of the canonical file name,
\* and stops at the first candidate that is unoccupied (the file goes
\* there) or holds a byte-identical file (a duplicate skip), every
\* lower-numbered candidate holding a file of different content.
C8_CollisionLoop ==
  /\ [][ProbeTurn => ProbeTurnIsRight]_vars
  /\ []LowerCandidatesDiffer
  /\ (pc = "loop") ~> (pc # "loop")

\* A file was transferred to the third candidate of CanonicalJpg,
\* 'out/2021/06/15/20210615-102030-3.jpg', after two occupied ones.
C8_Witness ==
  \E i \in DOMAIN hist :
    /\ hist[i].op = "primary"
    /\ hist[i].suffix = 3
    /\ hist[i].dst = <<"o", "u", "t", "/", "2", "0", "2", "1", "/", "0", "6", "/", "1", "5", "/", "2", "0", "2", "1", "0", "6", "1", "5", "-", "1", "0", "2", "0", "3", "0", "-", "3", ".", "j", "p", "g">>

====
